---- MODULE Spec2Model ----
(***************************************************************************)
(* Model of tools/build_images.py: a batch tool that downloads a list of   *)
(* images, archives each original and writes resized WebP derivatives (or  *)
(* a PNG passthrough copy), counting per-job failures.                     *)
(*                                                                         *)
(* Strings that the code splits (URLs, file names) are sequences of        *)
(* chunks: each chunk is one separator character (".", "/", "?", "#") or a *)
(* maximal run of other characters, so splitting on a separator acts on    *)
(* the chunk sequence exactly as str.split acts on the characters.         *)
(***************************************************************************)
EXTENDS Integers, Sequences, FiniteSets, TLC

\* Length of the job list handed to the runner loop.
NJobs == 2

----------------------------------------------------------------------------
\* Output roots (ROOT / "assets" / "images", ROOT / "assets" / "icons").

OUT_IMAGES == "assets/images"

OUT_ICONS == "assets/icons"

\* dataclass ImageJob; format defaults to "webp", quality to 78.
ImageJob(url, out_dir, base_name, widths, format, quality) ==
    [url |-> url, out_dir |-> out_dir, base_name |-> base_name,
     widths |-> widths, format |-> format, quality |-> quality]

DefaultFormat == "webp"

UrlPrefix ==
    <<"https:", "/", "/", "franquiadepilates", ".", "com", ".", "br", "/",
      "wp-content", "/", "uploads", "/">>

\* First job of the list in main(): the hero image.
JobHero ==
    ImageJob(UrlPrefix \o <<"2025", "/", "10", "/", "Imagem", ".", "webp">>,
             OUT_IMAGES, "hero", <<640, 960, 1280, 1600, 1920>>,
             DefaultFormat, 76)

\* Variant of the logo job carrying format="png".
JobLogoPng ==
    ImageJob(UrlPrefix \o <<"2019", "/", "02", "/", "voll-pilates", ".", "png">>,
             OUT_IMAGES, "logo-voll-grupo", <<200, 400>>, "png", 82)

\* Seventh job of the list in main(): no format argument is given.
JobLogo ==
    ImageJob(UrlPrefix \o <<"2019", "/", "02", "/", "voll-pilates", ".", "png">>,
             OUT_IMAGES, "logo-voll-grupo", <<200, 400>>, DefaultFormat, 82)

\* A PNG passthrough job; its URL has an upper-case extension, a query
\* string and a fragment, both holding dots.
JobIcon ==
    ImageJob(<<"https:", "/", "/", "cdn", ".", "example", ".", "com", "/",
               "Icon", ".", "PNG", "?", "v=1", ".", "2", "#", "top", ".", "x">>,
             OUT_ICONS, "icon", <<64, 128>>, "png", 80)

\* A job whose URL has no extension in its last path segment.
JobNoExt ==
    ImageJob(<<"https:", "/", "/", "cdn", ".", "example", ".", "com", "/",
               "image">>,
             OUT_IMAGES, "banner", <<640>>, DefaultFormat, 78)

\* A job with small widths, one of them the decoded width of Blob14.
JobThumb ==
    ImageJob(<<"https:", "/", "/", "cdn", ".", "example", ".", "com", "/",
               "thumb", ".", "webp", "#", "frag">>,
             OUT_ICONS, "thumb", <<17, 14>>, DefaultFormat, 80)

JobPool == {JobHero, JobLogo, JobIcon, JobNoExt, JobThumb}

\* Job lists: NJobs distinct jobs (base names are distinct as in main()).
JobLists ==
    {s \in [1..NJobs -> JobPool] : \A a, b \in 1..NJobs : a # b => s[a] # s[b]}

----------------------------------------------------------------------------
\* Payloads a URL can answer with.  A payload is the byte string; what the
\* decoder makes of it (size, mode, bands) is a function of the bytes.

Blob1920 ==
    [id |-> "b1920", valid |-> TRUE, width |-> 1920, height |-> 1080,
     mode |-> "RGB", bands |-> {"R", "G", "B"}]

Blob14 ==
    [id |-> "b14", valid |-> TRUE, width |-> 14, height |-> 21,
     mode |-> "LA", bands |-> {"L", "A"}]

BlobBad ==
    [id |-> "bad", valid |-> FALSE, width |-> 0, height |-> 0,
     mode |-> "", bands |-> {}]

Blobs == {Blob1920, Blob14, BlobBad}

NoBlob ==
    [id |-> "none", valid |-> FALSE, width |-> 0, height |-> 0,
     mode |-> "", bands |-> {}]

NoImage == [width |-> 0, height |-> 0, mode |-> "none"]

\* File contents: raw bytes, an encoded WebP, or a file cut short by a
\* failed write.
Bytes(b) == [kind |-> "bytes", id |-> b.id, w |-> 0, h |-> 0, mode |-> "", q |-> 0]

WebP(img, quality) ==
    [kind |-> "webp", id |-> "", w |-> img.width, h |-> img.height,
     mode |-> img.mode, q |-> quality]

Truncated == [kind |-> "truncated", id |-> "", w |-> 0, h |-> 0, mode |-> "", q |-> 0]

NoContent == [kind |-> "none", id |-> "", w |-> 0, h |-> 0, mode |-> "", q |-> 0]

NoPath == <<>>

----------------------------------------------------------------------------
\* String operations of save_original on chunk sequences.

Positions(s, sep) == {n \in 1..Len(s) : s[n] = sep}

\* s.split(sep)[0]: the part of s before the first sep, all of s without one.
SplitFirst(s, sep) ==
    LET I == Positions(s, sep)
    IN  IF I = {} THEN s
        ELSE SubSeq(s, 1, (CHOOSE n \in I : \A m \in I : n <= m) - 1)

\* s.split(sep)[-1]: the part of s after the last sep, all of s without one.
SplitLast(s, sep) ==
    LET I == Positions(s, sep)
    IN  IF I = {} THEN s
        ELSE SubSeq(s, (CHOOSE n \in I : \A m \in I : n >= m) + 1, Len(s))

\* str.lower() on one chunk: the chunks of this model that hold upper-case
\* letters, everything else is unchanged.
LowerChunk(c) ==
    CASE c = "PNG" -> "png"
      [] c = "Imagem" -> "imagem"
      [] c = "Icon" -> "icon"
      [] OTHER -> c

Lower(s) == [n \in 1..Len(s) |-> LowerChunk(s[n])]

\* original_ext = job.url.split("?")[0].split("#")[0].split(".")[-1].lower()
OriginalExt(url) == Lower(SplitLast(SplitFirst(SplitFirst(url, "?"), "#"), "."))

\* original_path = job.out_dir / f"{job.base_name}.orig.{original_ext}"
OriginalPath(job) ==
    <<job.out_dir, <<job.base_name, ".", "orig", ".">> \o OriginalExt(job.url)>>

\* out_path = job.out_dir / f"{job.base_name}.png"
PngPath(job) == <<job.out_dir, <<job.base_name, ".", "png">>>>

\* Variant: the width is left out of the derivative's name.
WebpPathNoWidth(job, w) == <<job.out_dir, <<job.base_name, ".", "webp">>>>

\* out_path = job.out_dir / f"{job.base_name}-{w}.webp"
WebpPath(job, w) ==
    <<job.out_dir, <<job.base_name \o "-" \o ToString(w), ".", "webp">>>>

\* A name holding "/" names a file in a subdirectory of out_dir; mkdir only
\* creates out_dir, so opening such a file for writing raises.
ParentExists(path) == \A n \in 1..Len(path[2]) : path[2][n] # "/"

\* save_original's original_path for each job of the pool, computed once.
OriginalPathOf == [j \in JobPool |-> OriginalPath(j)]

----------------------------------------------------------------------------
\* resize_to_width.  The height is round(img.height * (width / img.width))
\* in IEEE double arithmetic with Python's round (ties to even); the
\* operators below compute that value with integers only.

\* floor(log2(a / b)) for a, b >= 1.
FloorLog2(a, b) ==
    IF a >= b
    THEN CHOOSE e \in 0..30 : 2^e <= a \div b /\ a \div b < 2^(e + 1)
    ELSE -(CHOOSE t \in 1..30 : 2^t * a >= b /\ 2^(t - 1) * a < b)

Pow2(n) == 2^n

\* 2^n mod m for 40 <= n <= 70, without leaving 32-bit integers.
Pow2Mod(n, m) ==
    LET p20 == (2^20) % m
    IN  ((((p20 * p20) % m) * ((2^(n - 40)) % m)) % m)

Abs(x) == IF x < 0 THEN -x ELSE x

Max(a, b) == IF a >= b THEN a ELSE b

\* Sign and size of the rounding error of the double width / W: the double
\* is (width * 2^s + RatioError) / (W * 2^s) with s = 52 - FloorLog2(width, W).
RatioError(width, W) ==
    LET s == 52 - FloorLog2(width, W)
        rem == (width * Pow2Mod(s, W)) % W
    IN  IF rem = 0 THEN 0 ELSE IF 2 * rem < W THEN -rem ELSE W - rem

\* round(H * (width / W)): away from a tie the double error cannot change the
\* nearest integer; on a tie q + 1/2 of the exact quotient the product is
\* the double nearest to q + 1/2 + H * err / (W * 2^s), which is q + 1/2
\* itself (then round goes to the even neighbour) unless the error exceeds
\* half a unit in the last place of q + 1/2.
RoundScaled(H, width, W) ==
    LET q == (H * width) \div W
        r == (H * width) % W
        err == RatioError(width, W)
        dd == FloorLog2(2 * q + 1, 2) - FloorLog2(width, W)
    IN  IF 2 * r < W THEN q
        ELSE IF 2 * r > W THEN q + 1
        ELSE IF 2 * Abs(H * err) > W * Pow2(dd)
             THEN (IF err > 0 THEN q + 1 ELSE q)
        ELSE IF q % 2 = 0 THEN q ELSE q + 1

\* resize_to_width(img, width): the same bitmap when the width matches.
resize_to_width(img, width) ==
    IF img.width = width THEN img
    ELSE [width |-> width,
          height |-> Max(1, RoundScaled(img.height, width, img.width)),
          mode |-> img.mode]

\* Image.open + load + mode normalisation of process_job.
Decode(b) ==
    [width |-> b.width, height |-> b.height,
     mode |-> IF b.mode \in {"RGB", "RGBA"} THEN b.mode
              ELSE IF "A" \in b.bands THEN "RGBA" ELSE "RGB"]

----------------------------------------------------------------------------
\* State of one run of main().

VARIABLES
    jobs,      \* the job list built by main()
    idx,       \* position of the for loop over jobs (1-based)
    pc,        \* next step: "loop", "archive", "passthrough", "decode",
               \* "resize" or "done"
    blob,      \* process_job: the bytes returned by download_bytes
    im,        \* process_job: the decoded, mode-normalised bitmap
    k,         \* process_job: position of the for loop over job.widths
    failures,  \* main: the failure counter
    status,    \* the value main() returned, -1 while it runs
    fs,        \* the files on disk: path -> content
    stdout,    \* lines printed to the output stream
    stderr,    \* lines printed to the error stream
    calls      \* the I/O and library calls made so far, in order

vars == <<jobs, idx, pc, blob, im, k, failures, status, fs, stdout, stderr, calls>>

job == jobs[idx]

OutLine(text, i, path) == [line |-> text, job |-> i, path |-> path, n |-> 0]

SummaryLine(text, n) == [line |-> text, job |-> 0, path |-> NoPath, n |-> n]

Call(op, i, path, content, ok) ==
    [op |-> op, job |-> i, path |-> path, content |-> content, ok |-> ok]

\* Path.write_bytes / Image.save on the model file system.
WriteFile(files, path, content) == (path :> content) @@ files

\* What a write that raises can leave behind: nothing new, or (when the file
\* could be opened) a file cut short.
FailedWrites(files, path) ==
    {files} \cup (IF ParentExists(path) THEN {WriteFile(files, path, Truncated)} ELSE {})

\* The for loop of main() moves on to the next job after the except clause.
AfterExceptAbort(i) == NJobs + 1

AfterExcept(i) == i + 1

\* main(): the value returned after the loop.
ExitStatusSuccess(f) == 0

ExitStatus(f) == IF f # 0 THEN 2 ELSE 0

\* except Exception as exc: failures += 1; print(..., file=sys.stderr)
Except ==
    /\ failures' = failures + 1
    /\ stderr' = Append(stderr, OutLine("ERRO em", idx, NoPath))
    /\ idx' = AfterExcept(idx)
    /\ pc' = "loop"
    /\ blob' = NoBlob
    /\ im' = NoImage
    /\ k' = 0
    /\ UNCHANGED <<jobs, status>>

\* process_job returned normally: next iteration of the loop of main().
JobDone ==
    /\ idx' = idx + 1
    /\ pc' = "loop"
    /\ blob' = NoBlob
    /\ im' = NoImage
    /\ k' = 0
    /\ UNCHANGED <<jobs, failures, status, stderr>>

Init ==
    /\ jobs \in JobLists
    /\ idx = 1
    /\ pc = "loop"
    /\ blob = NoBlob
    /\ im = NoImage
    /\ k = 0
    /\ failures = 0
    /\ status = -1
    /\ fs = <<>>
    /\ stdout = <<>>
    /\ stderr = <<>>
    /\ calls = <<>>

\* process_job: print("Baixando: ..."), download_bytes returns the body.
DownloadOk ==
    /\ pc = "loop"
    /\ idx <= Len(jobs)
    /\ \E b \in Blobs :
        /\ blob' = b
        /\ calls' = Append(calls, Call("urlopen", idx, NoPath, Bytes(b), TRUE))
    /\ stdout' = Append(stdout, OutLine("Baixando", idx, NoPath))
    /\ pc' = "archive"
    /\ UNCHANGED <<jobs, idx, im, k, failures, status, fs, stderr>>

\* Variant: the original file is opened for writing before the download.
DownloadFailTouch ==
    /\ pc = "loop"
    /\ idx <= Len(jobs)
    /\ calls' = Append(calls, Call("urlopen", idx, NoPath, NoContent, FALSE))
    /\ stdout' = Append(stdout, OutLine("Baixando", idx, NoPath))
    /\ fs' = WriteFile(fs, OriginalPathOf[job], Truncated)
    /\ Except

\* process_job: download_bytes raises (network error, timeout, HTTP error).
DownloadFail ==
    /\ pc = "loop"
    /\ idx <= Len(jobs)
    /\ calls' = Append(calls, Call("urlopen", idx, NoPath, NoContent, FALSE))
    /\ stdout' = Append(stdout, OutLine("Baixando", idx, NoPath))
    /\ Except
    /\ UNCHANGED fs

\* Variant: the archive step is passed without writing the original.
SaveOriginalSkip ==
    /\ pc = "archive"
    /\ ParentExists(OriginalPathOf[job])
    /\ calls' = Append(calls, Call("save_original", idx, OriginalPathOf[job], Bytes(blob), TRUE))
    /\ pc' = IF job.format = "png" THEN "passthrough" ELSE "decode"
    /\ UNCHANGED <<jobs, idx, blob, im, k, failures, status, fs, stdout, stderr>>

\* save_original: mkdir, then the raw bytes are written to original_path.
SaveOriginalOk ==
    /\ pc = "archive"
    /\ ParentExists(OriginalPathOf[job])
    /\ fs' = WriteFile(fs, OriginalPathOf[job], Bytes(blob))
    /\ calls' = Append(calls, Call("save_original", idx, OriginalPathOf[job], Bytes(blob), TRUE))
    /\ pc' = IF job.format = "png" THEN "passthrough" ELSE "decode"
    /\ UNCHANGED <<jobs, idx, blob, im, k, failures, status, stdout, stderr>>

\* save_original raises (mkdir or write_bytes fails).
SaveOriginalFail ==
    /\ pc = "archive"
    /\ fs' \in FailedWrites(fs, OriginalPathOf[job])
    /\ calls' = Append(calls, Call("save_original", idx, OriginalPathOf[job], Bytes(blob), FALSE))
    /\ Except
    /\ UNCHANGED stdout

\* Variant: no return after the passthrough copy, the WebP pipeline runs too.
PassthroughFallThrough ==
    /\ pc = "passthrough"
    /\ fs' = WriteFile(fs, PngPath(job), Bytes(blob))
    /\ calls' = Append(calls, Call("write_png", idx, PngPath(job), Bytes(blob), TRUE))
    /\ stdout' = Append(stdout, OutLine("->", idx, PngPath(job)))
    /\ pc' = "decode"
    /\ UNCHANGED <<jobs, idx, blob, im, k, failures, status, stderr>>

\* format == "png": the raw bytes are written to <base_name>.png, then return.
PassthroughOk ==
    /\ pc = "passthrough"
    /\ fs' = WriteFile(fs, PngPath(job), Bytes(blob))
    /\ calls' = Append(calls, Call("write_png", idx, PngPath(job), Bytes(blob), TRUE))
    /\ stdout' = Append(stdout, OutLine("->", idx, PngPath(job)))
    /\ JobDone

\* format == "png": write_bytes raises.
PassthroughFail ==
    /\ pc = "passthrough"
    /\ fs' \in FailedWrites(fs, PngPath(job))
    /\ calls' = Append(calls, Call("write_png", idx, PngPath(job), Bytes(blob), FALSE))
    /\ Except
    /\ UNCHANGED stdout

\* Image.open, load and the mode normalisation succeed.
DecodeOk ==
    /\ pc = "decode"
    /\ blob.valid
    /\ calls' = Append(calls, Call("Image.open", idx, NoPath, Bytes(blob), TRUE))
    /\ IF Len(job.widths) = 0
       THEN JobDone
       ELSE /\ im' = Decode(blob)
            /\ k' = 1
            /\ pc' = "resize"
            /\ UNCHANGED <<jobs, idx, blob, failures, status, stderr>>
    /\ UNCHANGED <<fs, stdout>>

\* Image.open or load raises: the payload is no image (or decoding fails for
\* another reason).
DecodeFail ==
    /\ pc = "decode"
    /\ calls' = Append(calls, Call("Image.open", idx, NoPath, Bytes(blob), FALSE))
    /\ Except
    /\ UNCHANGED <<fs, stdout>>

\* One iteration of "for w in job.widths": resize, encode, print.
ResizeEncodeOk ==
    /\ pc = "resize"
    /\ LET w == job.widths[k]
           resized == resize_to_width(im, w)
           out_path == WebpPath(job, w)
       IN  /\ fs' = WriteFile(fs, out_path, WebP(resized, job.quality))
           /\ calls' = Append(calls, Call("encode_webp", idx, out_path,
                                          WebP(resized, job.quality), TRUE))
           /\ stdout' = Append(stdout, OutLine("->", idx, out_path))
    /\ IF k = Len(job.widths)
       THEN JobDone
       ELSE /\ k' = k + 1
            /\ UNCHANGED <<jobs, idx, pc, blob, im, failures, status, stderr>>

\* Variant: a failed width removes the derivatives the job wrote before.
ResizeEncodeFailCleanup ==
    /\ pc = "resize"
    /\ LET w == job.widths[k]
           resized == resize_to_width(im, w)
           out_path == WebpPath(job, w)
           mine == {WebpPath(job, job.widths[m]) : m \in 1..k}
       IN  /\ fs' = [p \in (DOMAIN fs) \ mine |-> fs[p]]
           /\ calls' = Append(calls, Call("encode_webp", idx, out_path,
                                          WebP(resized, job.quality), FALSE))
    /\ Except
    /\ UNCHANGED stdout

\* One iteration of "for w in job.widths" raises in resize or in encode_webp.
ResizeEncodeFail ==
    /\ pc = "resize"
    /\ LET w == job.widths[k]
           resized == resize_to_width(im, w)
           out_path == WebpPath(job, w)
       IN  /\ fs' \in FailedWrites(fs, out_path)
           /\ calls' = Append(calls, Call("encode_webp", idx, out_path,
                                          WebP(resized, job.quality), FALSE))
    /\ Except
    /\ UNCHANGED stdout

\* After the loop: the summary line and the return value of main().
Summary ==
    /\ pc = "loop"
    /\ idx > Len(jobs)
    /\ status' = ExitStatus(failures)
    /\ IF failures # 0
       THEN /\ stderr' = Append(stderr, SummaryLine("Concluido com falha(s)", failures))
            /\ UNCHANGED stdout
       ELSE /\ stdout' = Append(stdout, SummaryLine("Concluido", 0))
            /\ UNCHANGED stderr
    /\ pc' = "done"
    /\ UNCHANGED <<jobs, idx, blob, im, k, failures, fs, calls>>

Next ==
    \/ DownloadOk
    \/ DownloadFail
    \/ SaveOriginalOk
    \/ SaveOriginalFail
    \/ PassthroughOk
    \/ PassthroughFail
    \/ DecodeOk
    \/ DecodeFail
    \/ ResizeEncodeOk
    \/ ResizeEncodeFail
    \/ Summary

Spec == Init /\ [][Next]_vars

\* The script is one sequential process: it keeps taking steps until it returns.
FairSpec == Spec /\ WF_vars(Next)

----------------------------------------------------------------------------
\* Vocabulary of the properties, read off the call log and the streams.

JobIds == 1..Len(jobs)

CallIdx(i) == {n \in 1..Len(calls) : calls[n].job = i}

\* Jobs whose pipeline raised.
Raised == {i \in JobIds : \E n \in CallIdx(i) : ~calls[n].ok}

\* The loop of main() is past job i.
Finished(i) == i \in JobIds /\ i < idx

Completed(i) == Finished(i) /\ i \notin Raised

Attempts == SelectSeq(calls, LAMBDA c : c.op = "urlopen")

FetchFailed(i) ==
    \E n \in CallIdx(i) : calls[n].op = "urlopen" /\ ~calls[n].ok

FetchedBytes(i) ==
    LET n == CHOOSE m \in CallIdx(i) : calls[m].op = "urlopen" IN calls[n].content

WriteOps == {"save_original", "write_png", "encode_webp"}

\* The writes of job i that succeeded, in order.
Writes(i) == SelectSeq(calls, LAMBDA c : c.job = i /\ c.ok /\ c.op \in WriteOps)

PathsOf(seq) == [n \in 1..Len(seq) |-> seq[n].path]

ErrLines(i) == {n \in 1..Len(stderr) : stderr[n].line = "ERRO em" /\ stderr[n].job = i}

OnDisk(path, content) == path \in DOMAIN fs /\ fs[path] = content

----------------------------------------------------------------------------
\* C1: once main has gone through the whole list, the exit status is 0 iff no
\* job raised and 2 otherwise, and the failure count of the summary line is
\* the number of jobs whose pipeline raised.
C1_ExitStatusCountsRaisedJobs ==
    pc = "done" =>
        /\ status = (IF Raised = {} THEN 0 ELSE 2)
        /\ failures = Cardinality(Raised)
        /\ Raised # {} =>
              stderr[Len(stderr)] =
                  SummaryLine("Concluido com falha(s)", Cardinality(Raised))
        /\ Raised = {} => stdout[Len(stdout)] = SummaryLine("Concluido", 0)

\* A finished run in which some job raised and some job did not.
C1_Witness ==
    /\ pc = "done"
    /\ status = 2
    /\ Raised # {}
    /\ Raised # JobIds

\* C2 (state part): the jobs attempted so far are jobs 1..m in order, each
\* once; every job that raised has exactly one error line; at the summary
\* every job of the list has been attempted.
C2_Inv ==
    /\ Len(Attempts) = (IF pc \in {"loop", "done"} THEN idx - 1 ELSE idx)
    /\ \A n \in 1..Len(Attempts) : Attempts[n].job = n
    /\ \A i \in JobIds :
          Cardinality(ErrLines(i)) = (IF i \in Raised THEN 1 ELSE 0)
    /\ \A i \in Raised : Cardinality({n \in CallIdx(i) : ~calls[n].ok}) = 1
    /\ pc = "done" => Len(Attempts) = Len(jobs)

\* C2: whatever jobs fail and wherever they fail, every job of the list is
\* attempted exactly once, in declaration order; an error is caught once,
\* never retried, never stops the later jobs, and the run reaches the summary.
C2_EveryJobOnceInOrder == []C2_Inv /\ <>(pc = "done")

\* The first job raised after its fetch, the second one completed.
C2_Witness ==
    /\ pc = "done"
    /\ 1 \in Raised
    /\ ~FetchFailed(1)
    /\ Completed(2)

\* C3 (state part): a job whose fetch failed made no other call, so it wrote
\* no file, and it has one error line; at the summary the jobs after it
\* have been attempted.
C3_Inv ==
    \A i \in JobIds :
        FetchFailed(i) =>
            /\ Cardinality(CallIdx(i)) = 1
            /\ Writes(i) = <<>>
            /\ Cardinality(ErrLines(i)) = 1
            /\ pc = "done" => \A j \in JobIds : j > i => CallIdx(j) # {}

\* C3 (step part): the step in which a fetch fails adds exactly 1 to the
\* failure counter, leaves the file system as it was and moves to the next job.
C3_Step ==
    (pc = "loop" /\ pc' = "loop" /\ Len(calls') > Len(calls)) =>
        /\ failures' = failures + 1
        /\ fs' = fs
        /\ idx' = idx + 1

\* C3: a job whose fetch fails increments the failure counter by exactly 1,
\* writes no archived original and no derivative, and the later jobs run.
C3_FetchFailureWritesNothing == []C3_Inv /\ [][C3_Step]_vars

\* The first job's fetch failed and the second job wrote its original.
C3_Witness ==
    /\ pc = "done"
    /\ FetchFailed(1)
    /\ failures = 1
    /\ Len(Writes(2)) > 0

----------------------------------------------------------------------------
LaterSteps == {"passthrough", "decode", "resize"}

LaterOps == {"write_png", "Image.open", "encode_webp"}

\* C4 (state part): while a job is at a step after the archive step, its
\* archived original is on disk and holds the fetched bytes; every
\* passthrough, decode or encode call of a job comes after a successful
\* archive call of that job that wrote the bytes the fetch returned.
C4_Inv ==
    /\ pc \in LaterSteps =>
          /\ OnDisk(OriginalPathOf[job], Bytes(blob))
          /\ Bytes(blob) = FetchedBytes(idx)
    /\ \A n \in 1..Len(calls) :
          calls[n].op \in LaterOps =>
              \E m \in 1..(n - 1) :
                  /\ calls[m].job = calls[n].job
                  /\ calls[m].op = "save_original"
                  /\ calls[m].ok
                  /\ calls[m].path = OriginalPathOf[jobs[calls[n].job]]
                  /\ calls[m].content = FetchedBytes(calls[n].job)

\* C4 (step part): a step after the archive step that raises leaves the
\* archived original on disk with the fetched bytes.
C4_Step ==
    (pc \in LaterSteps /\ failures' = failures + 1) =>
        /\ OriginalPathOf[job] \in DOMAIN fs'
        /\ fs'[OriginalPathOf[job]] = Bytes(blob)

\* C4: in a job whose fetch succeeds the archived original is written before
\* any passthrough, decode, resize or encode step, holds exactly the fetched
\* bytes, and stays on disk with them when a later step of the job fails.
C4_OriginalArchivedFirst == []C4_Inv /\ [][C4_Step]_vars

\* A job failed while decoding or encoding and its original is on disk.
C4_Witness ==
    \E n \in 1..Len(calls) :
        /\ calls[n].op \in {"Image.open", "encode_webp"}
        /\ ~calls[n].ok
        /\ Finished(calls[n].job)
        /\ OnDisk(OriginalPathOf[jobs[calls[n].job]], FetchedBytes(calls[n].job))

\* C5: a job with format "png" makes no decode, resize or encode call and
\* writes no file but its archived original and <base_name>.png, whatever
\* its widths and quality; once it has completed, the two files were
\* written in that order and <base_name>.png holds the fetched bytes.
C5_PngPassthrough ==
    \A i \in JobIds :
        jobs[i].format = "png" =>
            /\ \A n \in CallIdx(i) :
                  /\ calls[n].op \in {"urlopen", "save_original", "write_png"}
                  /\ calls[n].op = "write_png" =>
                        /\ calls[n].path = PngPath(jobs[i])
                        /\ calls[n].content = FetchedBytes(i)
            /\ Completed(i) =>
                  /\ PathsOf(Writes(i)) = <<OriginalPathOf[jobs[i]], PngPath(jobs[i])>>
                  /\ OnDisk(PngPath(jobs[i]), FetchedBytes(i))
                  /\ OnDisk(OriginalPathOf[jobs[i]], FetchedBytes(i))

\* A png job with two widths has completed.
C5_Witness ==
    \E i \in JobIds :
        /\ jobs[i].format = "png"
        /\ Len(jobs[i].widths) = 2
        /\ Completed(i)
        /\ OnDisk(<<OUT_ICONS, <<"icon", ".", "png">>>>, FetchedBytes(i))

LogoOrig == <<OUT_IMAGES, <<"logo-voll-grupo", ".", "orig", ".", "png">>>>

LogoPng == <<OUT_IMAGES, <<"logo-voll-grupo", ".", "png">>>>

LogoWebp(w) == <<OUT_IMAGES, <<"logo-voll-grupo-" \o ToString(w), ".", "webp">>>>

\* C6 as stated: the completed job "logo-voll-grupo" has written only
\* logo-voll-grupo.orig.png and logo-voll-grupo.png, both holding the
\* fetched bytes.
C6_LogoIsPassthrough ==
    \A i \in JobIds :
        (jobs[i].base_name = "logo-voll-grupo" /\ Completed(i)) =>
            /\ PathsOf(Writes(i)) = <<LogoOrig, LogoPng>>
            /\ \A n \in 1..Len(Writes(i)) : Writes(i)[n].content = FetchedBytes(i)

\* C6 amended: the job "logo-voll-grupo" runs the WebP pipeline; once
\* completed it has written logo-voll-grupo.orig.png, holding the fetched
\* bytes, then logo-voll-grupo-200.webp and logo-voll-grupo-400.webp, and no
\* logo-voll-grupo.png.
C6_LogoIsWebp ==
    \A i \in JobIds :
        (jobs[i].base_name = "logo-voll-grupo" /\ Completed(i)) =>
            /\ PathsOf(Writes(i)) = <<LogoOrig, LogoWebp(200), LogoWebp(400)>>
            /\ Writes(i)[1].content = FetchedBytes(i)
            /\ OnDisk(LogoOrig, FetchedBytes(i))
            /\ \A n \in 2..3 : Writes(i)[n].content.kind = "webp"
            /\ LogoPng \notin DOMAIN fs

\* The job "logo-voll-grupo" has completed.
C6_Witness ==
    \E i \in JobIds :
        /\ jobs[i].base_name = "logo-voll-grupo"
        /\ Completed(i)
        /\ LogoWebp(400) \in DOMAIN fs

\* round(n / d) of the exact quotient, ties to the even neighbour.
RoundExact(n, d) ==
    LET q == n \div d
        r == n % d
    IN  IF 2 * r < d THEN q
        ELSE IF 2 * r > d THEN q + 1
        ELSE IF q % 2 = 0 THEN q ELSE q + 1

\* C7: every derivative written for a requested width w from a bitmap
\* decoded at W x H has width w and height max(1, round(H * w / W)), and is
\* W x H when w = W.
C7_DerivativeSize ==
    \A n \in 1..Len(calls) :
        (calls[n].op = "encode_webp" /\ calls[n].ok) =>
            LET d == Decode(CHOOSE b \in Blobs : Bytes(b) = FetchedBytes(calls[n].job))
                w == calls[n].content.w
            IN  /\ calls[n].path = WebpPath(jobs[calls[n].job], w)
                /\ calls[n].content.h = Max(1, RoundExact(d.height * w, d.width))
                /\ w = d.width => calls[n].content.h = d.height

HeroPaths ==
    <<<<OUT_IMAGES, <<"hero", ".", "orig", ".", "webp">>>>,
      <<OUT_IMAGES, <<"hero-640", ".", "webp">>>>,
      <<OUT_IMAGES, <<"hero-960", ".", "webp">>>>>>

\* C8: a webp job that completed without error fetched its URL once, decoded
\* once, and wrote exactly its archived original followed by one file
\* <base_name>-<w>.webp per listed width, in the listed order, each of width
\* w, all in the job's directory; from a 1920x1080 source the job "hero"
\* wrote hero.orig.webp, hero-640.webp at 640x360 and hero-960.webp at 960x540.
C8_WebpJobOutputs ==
    \A i \in JobIds :
        (jobs[i].format = "webp" /\ Completed(i)) =>
            LET ws == jobs[i].widths
                wr == Writes(i)
            IN  /\ Cardinality({n \in CallIdx(i) : calls[n].op = "urlopen"}) = 1
                /\ Cardinality({n \in CallIdx(i) : calls[n].op = "Image.open"}) = 1
                /\ Len(wr) = 1 + Len(ws)
                /\ wr[1].path = OriginalPathOf[jobs[i]]
                /\ wr[1].content = FetchedBytes(i)
                /\ \A m \in 1..Len(ws) :
                      /\ wr[m + 1].path = WebpPath(jobs[i], ws[m])
                      /\ wr[m + 1].content.kind = "webp"
                      /\ wr[m + 1].content.w = ws[m]
                      /\ wr[m + 1].content.q = jobs[i].quality
                /\ \A m \in 1..Len(wr) :
                      /\ wr[m].path[1] = jobs[i].out_dir
                      /\ OnDisk(wr[m].path, wr[m].content)
                /\ Cardinality({wr[m].path : m \in 1..Len(wr)}) = 1 + Len(ws)
                /\ (jobs[i].base_name = "hero" /\ FetchedBytes(i) = Bytes(Blob1920)) =>
                      /\ SubSeq(PathsOf(wr), 1, 3) = HeroPaths
                      /\ wr[2].content.w = 640 /\ wr[2].content.h = 360
                      /\ wr[3].content.w = 960 /\ wr[3].content.h = 540

\* The job "hero" has completed on the 1920x1080 source.
C8_Witness ==
    \E i \in JobIds :
        /\ jobs[i].base_name = "hero"
        /\ Completed(i)
        /\ FetchedBytes(i) = Bytes(Blob1920)
        /\ HeroPaths[3] \in DOMAIN fs

\* The lower-cased extension of the last path segment of url, query string
\* and fragment ignored; empty when that segment has no extension.
PathExtension(url) ==
    LET cut == Positions(url, "?") \cup Positions(url, "#")
        path == IF cut = {} THEN url
                ELSE SubSeq(url, 1, (CHOOSE n \in cut : \A m \in cut : n <= m) - 1)
        segment == SplitLast(path, "/")
    IN  IF Positions(segment, ".") = {} THEN <<>>
        ELSE Lower(SplitLast(segment, "."))

\* C9: for every job URL the archived original is written to
\* <base_name>.orig.<ext> in the job's directory, <ext> being the lower-cased
\* extension of the URL's last path segment, and replaces what was there.
C9_OriginalName ==
    \A n \in 1..Len(calls) :
        calls[n].op = "save_original" =>
            LET j == jobs[calls[n].job]
            IN  /\ calls[n].path =
                      <<j.out_dir, <<j.base_name, ".", "orig", ".">> \o PathExtension(j.url)>>
                /\ (calls[n].ok /\ calls[n].job = idx) =>
                      OnDisk(calls[n].path, calls[n].content)

\* C10 (step part): a decode or k-th width step that raises leaves every
\* file on disk as it was, except possibly the k-th derivative itself,
\* creates no other file, keeps the archived original and derivatives
\* 1..k-1, counts one failure and ends the job.
C10_Step ==
    (pc \in {"decode", "resize"} /\ failures' = failures + 1) =>
        LET kth == IF pc = "resize" THEN {WebpPath(job, job.widths[k])} ELSE {}
        IN  /\ \A p \in (DOMAIN fs) \ kth : p \in DOMAIN fs' /\ fs'[p] = fs[p]
            /\ (DOMAIN fs') \subseteq ((DOMAIN fs) \cup kth)
            /\ OriginalPathOf[job] \in DOMAIN fs'
            /\ fs'[OriginalPathOf[job]] = Bytes(blob)
            /\ pc = "resize" =>
                  \A m \in 1..(k - 1) :
                      /\ WebpPath(job, job.widths[m]) \in DOMAIN fs'
                      /\ fs'[WebpPath(job, job.widths[m])] =
                             WebP(resize_to_width(im, job.widths[m]), job.quality)
            /\ idx' = idx + 1
            /\ pc' = "loop"

\* C10 (state part): for a webp job that raised while decoding or encoding,
\* the failing call is the last call of the job, the job has one error
\* line, and every file the job wrote before is still on disk unchanged.
C10_Inv ==
    \A n \in 1..Len(calls) :
        (calls[n].op \in {"Image.open", "encode_webp"} /\ ~calls[n].ok) =>
            LET i == calls[n].job
            IN  /\ \A m \in CallIdx(i) : m <= n
                /\ Cardinality(ErrLines(i)) = 1
                /\ \A m \in 1..Len(Writes(i)) :
                      OnDisk(Writes(i)[m].path, Writes(i)[m].content)
                /\ Len(Writes(i)) >= 1

\* C10: when a webp job fails while decoding or while producing its k-th
\* width, the files it already wrote stay on disk unchanged, no derivative
\* for a later width is written, nothing is cleaned up and the job counts
\* as exactly one failure.
C10_PartialOutputsKept == []C10_Inv /\ [][C10_Step]_vars

\* A finished run in which a job failed on its second width after writing
\* its first derivative.
C10_Witness ==
    /\ pc = "done"
    /\ \E n \in 1..Len(calls) :
          /\ calls[n].op = "encode_webp"
          /\ ~calls[n].ok
          /\ Len(Writes(calls[n].job)) = 2
          /\ failures = 1

====
